---- MODULE Spec2Model ----
(***************************************************************************)
(* Model of whisper_wrapper.c: the WAV decoder read_wav_file and the       *)
(* transcription facade (create / free / is_loaded / transcribe_with_lang  *)
(* / transcribe_pcm_with_lang) around the external whisper engine.         *)
(*                                                                         *)
(* Each C function is one action.  The C heap is a small array of blocks;  *)
(* malloc, free, realloc and strdup are operators threading a memory       *)
(* record m through the body of a function, and every heap call and every *)
(* engine call is appended to the event list m.ev of the running call.     *)
(* A C string is a run-length encoded sequence of runs [s, n] ("s"         *)
(* repeated n times), so that transcripts of tens of kilobytes can be      *)
(* compared against the real 16 KiB initial capacity.                      *)
(***************************************************************************)
EXTENDS Integers, Sequences, FiniteSets, TLC

VARIABLES wrapper, ctx, result_buffer, heap, last, crashed, file, dec

vars == <<wrapper, ctx, result_buffer, heap, last, crashed, file, dec>>

(***************************************************************************)
(* Bounds of the model.                                                    *)
(***************************************************************************)
NBlocks == 3        \* heap blocks that can be live at once
MaxSegs == 2        \* segments the engine reports in one run
MaxDataSize == 9    \* largest positive data size of an enumerated header
MaxAllocs == 4      \* allocation of a call that the environment may fail

NULL == 0

(***************************************************************************)
(* C strings.                                                              *)
(***************************************************************************)
Run(s, n) == IF n = 0 THEN <<>> ELSE <<[s |-> s, n |-> n]>>

Literal(s) == Run(s, 1)

RECURSIVE strlen(_)
strlen(t) == IF t = <<>> THEN 0
             ELSE Len(t[1].s) * t[1].n + strlen(Tail(t))

\* the bytes of src appended after the bytes of dest
strcat(dest, src) ==
    IF dest = <<>> THEN src
    ELSE IF src = <<>> THEN dest
    ELSE IF dest[Len(dest)].s = src[1].s
         THEN SubSeq(dest, 1, Len(dest) - 1)
              \o <<[s |-> src[1].s, n |-> dest[Len(dest)].n + src[1].n]>>
              \o Tail(src)
         ELSE dest \o src

(***************************************************************************)
(* The heap.                                                               *)
(***************************************************************************)
DeadBlock == [live |-> FALSE, role |-> "none", cap |-> 0, text |-> <<>>]

EmptyHeap == [b \in 1..NBlocks |-> DeadBlock]

Ev(e, b, role) == [e |-> e, b |-> b, role |-> role]

\* the memory record a function body threads through its heap calls
Mem(h, failAt, persist) ==
    [heap |-> h, ev |-> <<>>, na |-> 0, failAt |-> failAt, persist |-> persist,
     failed |-> FALSE, dfree |-> FALSE, overrun |-> FALSE]

\* the environment refuses the next allocation
AllocFails(m) ==
    /\ m.failAt # 0
    /\ \/ m.na + 1 = m.failAt
       \/ m.persist /\ m.na + 1 > m.failAt

FreeIds(m) == {b \in 1..NBlocks : ~m.heap[b].live}

LowestId(S) == CHOOSE b \in S : \A c \in S : b <= c

malloc(m, role, size) ==
    IF AllocFails(m) \/ FreeIds(m) = {}
    THEN [m |-> [m EXCEPT !.na = @ + 1, !.failed = TRUE,
                          !.ev = Append(@, Ev("malloc", NULL, role))],
          p |-> NULL]
    ELSE LET b == LowestId(FreeIds(m))
         IN [m |-> [m EXCEPT !.na = @ + 1,
                             !.heap[b] = [live |-> TRUE, role |-> role,
                                          cap |-> size, text |-> <<>>],
                             !.ev = Append(@, Ev("malloc", b, role))],
             p |-> b]

free(m, p) ==
    IF p = NULL THEN m
    ELSE IF m.heap[p].live
    THEN [m EXCEPT !.heap[p] = DeadBlock,
                   !.ev = Append(@, Ev("free", p, m.heap[p].role))]
    ELSE [m EXCEPT !.dfree = TRUE,
                   !.ev = Append(@, Ev("free", p, "dead"))]

\* realloc of a live block: grown in place, or refused leaving it untouched
realloc(m, p, size) ==
    IF AllocFails(m)
    THEN [m |-> [m EXCEPT !.na = @ + 1, !.failed = TRUE,
                          !.ev = Append(@, Ev("realloc", NULL, m.heap[p].role))],
          p |-> NULL]
    ELSE [m |-> [m EXCEPT !.na = @ + 1, !.heap[p].cap = size,
                          !.ev = Append(@, Ev("realloc", p, m.heap[p].role))],
          p |-> p]

strdup(m, text) ==
    LET a == malloc(m, "result", strlen(text) + 1)
    IN IF a.p = NULL THEN a
       ELSE [m |-> [a.m EXCEPT !.heap[a.p].text = text], p |-> a.p]

LiveBlocks(h) == {b \in 1..NBlocks : h[b].live}

(***************************************************************************)
(* read_wav_file.                                                          *)
(*                                                                         *)
(* A file is [exists, hdr, riff, wave, ch, bits, rate, dsize, data]: hdr   *)
(* is the number of header bytes the file holds, riff and wave the tags at *)
(* offsets 0 and 8, ch/bits the two bytes at offsets 22/34, rate/dsize the *)
(* four bytes at offsets 24/40, data the bytes that follow the header.     *)
(***************************************************************************)
HeaderSize == 44

\* *(short *)p and *(int *)p of little-endian bytes
Int16(b) == LET u == b[1] + 256 * b[2]
            IN IF u >= 32768 THEN u - 65536 ELSE u

Int32(b) == LET low == b[1] + 256 * b[2] + 65536 * b[3]
            IN IF b[4] >= 128
               THEN ((low + 16777216 * (b[4] - 128)) - 2147483647) - 1
               ELSE low + 16777216 * b[4]

\* 32-bit int values as bit vectors, bit 0 the least significant
Bits32(byte) == [i \in 0..31 |-> IF i < 8 THEN (byte \div (2 ^ i)) % 2 ELSE 0]

Shl(v, k) == [i \in 0..31 |-> IF i >= k THEN v[i - k] ELSE 0]

BitOr(a, b) == [i \in 0..31 |-> IF a[i] = 1 \/ b[i] = 1 THEN 1 ELSE 0]

RECURSIVE LowBits(_, _)
LowBits(v, i) == IF i < 0 THEN 0 ELSE v[i] * (2 ^ i) + LowBits(v, i - 1)

\* the two's-complement value of a bit vector
ToInt32(v) == IF v[31] = 1 THEN (LowBits(v, 30) - 2147483647) - 1
              ELSE LowBits(v, 30)

\* variant: the standard 24-bit unpack, shifts 0/8/16
Pack24_Standard(b0, b1, b2) ==
    ToInt32(BitOr(BitOr(Bits32(b0), Shl(Bits32(b1), 8)), Shl(Bits32(b2), 16)))

\* int sample = (buf[k] << 8) | (buf[k+1] << 16) | (buf[k+2] << 24)
Pack24(b0, b1, b2) ==
    ToInt32(BitOr(BitOr(Shl(Bits32(b0), 8), Shl(Bits32(b1), 16)),
                  Shl(Bits32(b2), 24)))

\* variant: the 24-bit depth is refused
BitsSupported_No24(bits) == bits = 16 \/ bits = 32 \/ bits = 8

BitsSupported(bits) == bits = 16 \/ bits = 32 \/ bits = 8 \/ bits = 24

\* variant: the sample width is left out of the division
SampleCount_NoWidth(data_size, bits, ch) == data_size \div ch

\* *samples = data_size / (bits_per_sample / 8) / num_channels
SampleCount(data_size, bits, ch) == (data_size \div (bits \div 8)) \div ch

\* the element buf[i * num_channels + j] and the bytes of buf it covers
ElemIndex(i, j, ch) == i * ch + j

ElemBytes(k, width) == [n \in 1..width |-> width * k + (n - 1)]

\* one frame: the inner loop over the channels j = from .. ch-1
RECURSIVE FrameLoop(_, _, _, _, _, _)
FrameLoop(acc, data, i, j, ch, width) ==
    IF j >= ch THEN acc
    ELSE LET offs == ElemBytes(ElemIndex(i, j, ch), width)
             byte(n) == IF offs[n] + 1 \in DOMAIN data THEN data[offs[n] + 1]
                        ELSE 0
             next == [acc EXCEPT
                        !.reads = @ \o offs,
                        !.ints = IF width = 3
                                 THEN Append(@, Pack24(byte(1), byte(2), byte(3)))
                                 ELSE @]
         IN FrameLoop(next, data, i, j + 1, ch, width)

\* the outer loop over the frames i = from .. samples-1, writing (*pcm)[i]
RECURSIVE ConvertLoop(_, _, _, _, _, _)
ConvertLoop(acc, data, i, samples, ch, width) ==
    IF i >= samples THEN acc
    ELSE LET f == FrameLoop(acc, data, i, 0, ch, width)
         IN ConvertLoop([f EXCEPT !.writes = Append(@, i)],
                        data, i + 1, samples, ch, width)

NoAccess == [reads |-> <<>>, writes |-> <<>>, ints |-> <<>>]

\* a failed decode; pcm is what *pcm holds then (NULL, or a pointer already freed)
WavFail(m, pcm, rate, samples) ==
    [ok |-> FALSE, m |-> m, pcm |-> pcm, samples |-> samples,
     sample_rate |-> rate, pcmCap |-> 0, rawCap |-> 0, acc |-> NoAccess]

\* lines 143-282: allocate the raw buffer, read the data, convert, free it
ReadAndConvert(f, m1, pcm, rate, samples, ch, bits, data_size) ==
    LET width == bits \div 8
        b == malloc(m1, "raw", data_size)
    IN IF b.p = NULL
       THEN WavFail(free(b.m, pcm), pcm, rate, samples)
       ELSE IF Len(f.data) < data_size
       THEN WavFail(free(free(b.m, b.p), pcm), pcm, rate, samples)
       ELSE LET data == SubSeq(f.data, 1, data_size)
                acc == ConvertLoop(NoAccess, data, 0, samples, ch, width)
                m2 == [b.m EXCEPT !.ev = @ \o <<Ev("fread", b.p, "raw"),
                                                Ev("convert", pcm, "pcm")>>]
            IN [ok |-> TRUE, m |-> free(m2, b.p), pcm |-> pcm,
                samples |-> samples, sample_rate |-> rate,
                pcmCap |-> samples * 4, rawCap |-> data_size, acc |-> acc]

read_wav_file(f, m) ==
    IF ~f.exists THEN WavFail(m, NULL, 0, 0)
    ELSE IF f.hdr # HeaderSize THEN WavFail(m, NULL, 0, 0)
    ELSE IF f.riff # "RIFF" \/ f.wave # "WAVE" THEN WavFail(m, NULL, 0, 0)
    ELSE LET rate == Int32(f.rate)
             ch == Int16(f.ch)
             bits == Int16(f.bits)
             data_size == Int32(f.dsize)
         IN IF data_size <= 0 THEN WavFail(m, NULL, rate, 0)
            ELSE IF ch <= 0 THEN WavFail(m, NULL, rate, 0)
            ELSE IF ~BitsSupported(bits) THEN WavFail(m, NULL, rate, 0)
            ELSE LET samples == SampleCount(data_size, bits, ch)
                 IN IF samples <= 0 THEN WavFail(m, NULL, rate, samples)
                    ELSE LET a == malloc(m, "pcm", samples * 4)
                         IN IF a.p = NULL THEN WavFail(a.m, NULL, rate, samples)
                            ELSE ReadAndConvert(f, a.m, a.p, rate, samples,
                                                ch, bits, data_size)

(***************************************************************************)
(* The decoder on its own: SpecWav decodes one file drawn from WavFiles.   *)
(***************************************************************************)
LE16(n) == IF n < 0 THEN <<(n + 65536) % 256, (n + 65536) \div 256>>
           ELSE <<n % 256, n \div 256>>

LE32(n) == IF n < 0 THEN <<255, 255, 255, 255>>
           ELSE <<n % 256, (n \div 256) % 256, (n \div 65536) % 256,
                  n \div 16777216>>

Zeros(n) == [i \in 1..n |-> 0]

WavFile(hdr, riff, wave, ch, bits, rate, dsize, data) ==
    [exists |-> TRUE, hdr |-> hdr, riff |-> riff, wave |-> wave,
     ch |-> LE16(ch), bits |-> LE16(bits), rate |-> LE32(rate),
     dsize |-> LE32(dsize), data |-> data]

NoFile == [WavFile(0, "", "", 0, 0, 0, 0, <<>>) EXCEPT !.exists = FALSE]

ByteVals == {0, 1, 127, 128, 129, 255}

\* headers with good tags, every combination of the validated fields
HeaderFiles ==
    {WavFile(HeaderSize, "RIFF", "WAVE", ch, bits, rate, ds, Zeros(avail)) :
        ch \in {-1, 0, 1, 2, 3}, bits \in {0, 8, 12, 16, 24, 32},
        rate \in {16000, 44100},
        ds \in -1..MaxDataSize,
        avail \in {2, MaxDataSize + 1}}

\* one frame of 24-bit mono audio, each byte drawn from ByteVals
Pack24Files ==
    {WavFile(HeaderSize, "RIFF", "WAVE", 1, 24, 16000, 3, <<b0, b1, b2>>) :
        b0 \in ByteVals, b1 \in ByteVals, b2 \in ByteVals}

BrokenFiles ==
    {NoFile,
     WavFile(20, "RIFF", "WAVE", 1, 16, 16000, 4, <<>>),
     WavFile(HeaderSize, "RIFX", "WAVE", 1, 16, 16000, 4, Zeros(4)),
     WavFile(HeaderSize, "RIFF", "WAVX", 1, 16, 16000, 4, Zeros(4))}

WavFiles == HeaderFiles \cup Pack24Files \cup BrokenFiles

(***************************************************************************)
(* The transcription facade.                                               *)
(*                                                                         *)
(* wrapper is the caller's handle (NULL or HANDLE), ctx and result_buffer  *)
(* the two fields of struct whisper_wrapper.  last describes the call that *)
(* ran last: its arguments, what it returned, its heap and engine events.  *)
(* The engine is the environment: whisper_full's status and the segment    *)
(* texts are inputs of the call.                                           *)
(***************************************************************************)
HANDLE == 1

InitialBufferSize == 16384

ErrInvalid == "Error: Invalid parameters"
ErrLoad == "Error: Failed to load audio file"
ErrProcess == "Error: Failed to process audio with whisper"
ErrAlloc == "Error: Failed to allocate memory for transcription"
NoSpeech == "No speech detected"

\* what a call returns: a string literal, a heap pointer, or NULL
RetLit(s) == [kind |-> "literal", p |-> NULL, text |-> Literal(s)]

RetBuf(m, p) == IF p = NULL THEN [kind |-> "null", p |-> NULL, text |-> <<>>]
                ELSE [kind |-> "heap", p |-> p, text |-> m.heap[p].text]

\* the files behind the paths 1 .. Len(FileSystem)
FileSystem ==
    << WavFile(HeaderSize, "RIFF", "WAVE", 2, 16, 44100, 9, Zeros(9)),
       WavFile(HeaderSize, "RIFF", "WAVE", 1, 12, 16000, 4, Zeros(4)),
       WavFile(HeaderSize, "RIFF", "WAVE", 1, 16, 16000, 4, Zeros(2)),
       NoFile >>

Paths == 1..Len(FileSystem)

\* segment texts the engine may report: short, one that forces one doubling,
\* one longer than twice the initial capacity
SegTexts == {Run("a", 3), Run("b", 16383), Run("a", 40000)}

RECURSIVE SegLists(_)
SegLists(n) == IF n = 0 THEN {<<>>}
               ELSE LET S == SegLists(n - 1)
                    IN S \cup {Append(l, t) : l \in {x \in S : Len(x) = n - 1},
                                              t \in SegTexts}

SegListsAll == SegLists(MaxSegs)

\* <<k, persist>>: allocation k of the call fails (none when k = 0), and with
\* persist every later one too
AllocEnvs == {<<0, FALSE>>} \cup ((1..MaxAllocs) \X BOOLEAN)

NoEnv == <<0, FALSE>>

\* the result of a function body: memory, the handle's buffer, the return
\* value and what the call consumed from its environment
Out(m, rb, ret, valid, decoded, engine, segs, appends) ==
    [m |-> m, rb |-> rb, ret |-> ret, valid |-> valid, decoded |-> decoded,
     engine |-> engine, segs |-> segs, appends |-> appends]

\* line 310
InvalidFileArgs(w, c, audio_path) == w = NULL \/ ~c \/ audio_path = NULL

\* variant: a sample count of 0 passes
InvalidPcmArgs_ZeroAllowed(w, c, pcm_data, n_samples) ==
    w = NULL \/ ~c \/ pcm_data = NULL \/ n_samples < 0

\* line 416
InvalidPcmArgs(w, c, pcm_data, n_samples) ==
    w = NULL \/ ~c \/ pcm_data = NULL \/ n_samples <= 0

\* variant: the previous result is dropped without free
FreePrevious_Leak(m, rb) == m

\* lines 315-320 and 421-426: free any previous result
FreePrevious(m, rb) == IF rb # NULL THEN free(m, rb) ELSE m

\* wrapper->result_buffer = strdup(s); return wrapper->result_buffer;
ReturnSentinel(m, s, decoded, engine) ==
    LET d == strdup(m, Literal(s))
    IN Out(d.m, d.p, RetBuf(d.m, d.p), TRUE, decoded, engine, <<>>, <<>>)

NeedsGrow(current_length, segment_length, buffer_size) ==
    current_length + segment_length + 2 > buffer_size

\* line 399: a space follows every segment but the last
SeparatorAfter(i, n_segments) == i < n_segments - 1

\* lines 374-405 and 460-491: the concatenation loop from segment i on
RECURSIVE SegLoop(_, _, _, _, _, _, _)
SegLoop(m, rb, buffer_size, segs, i, appends, decoded) ==
    IF i >= Len(segs)
    THEN Out(m, rb, RetBuf(m, rb), TRUE, decoded, "ok", segs, appends)
    ELSE LET segment_text == segs[i + 1]
             current_length == strlen(m.heap[rb].text)
             segment_length == strlen(segment_text)
             grow == NeedsGrow(current_length, segment_length, buffer_size)
             size == IF grow THEN buffer_size * 2 ELSE buffer_size
             r == IF grow THEN realloc(m, rb, size) ELSE [m |-> m, p |-> rb]
         IN IF r.p = NULL
            THEN LET d == strdup(free(r.m, rb), Literal(ErrAlloc))
                 IN Out(d.m, d.p, RetBuf(d.m, d.p), TRUE, decoded, "ok", segs,
                        appends)
            ELSE LET t1 == strcat(r.m.heap[rb].text, segment_text)
                     t2 == IF SeparatorAfter(i, Len(segs))
                           THEN strcat(t1, Literal(" ")) ELSE t1
                     m2 == [r.m EXCEPT !.heap[rb].text = t2,
                                       !.overrun = @ \/ strlen(t2) + 1 > size]
                     a == [cur |-> current_length, seg |-> segment_length,
                           cap |-> size]
                 IN SegLoop(m2, rb, size, segs, i + 1, Append(appends, a),
                            decoded)

\* lines 357-405 and 443-491: collect the segments of a successful run
CollectSegments(m, segs, decoded) ==
    IF Len(segs) <= 0 THEN ReturnSentinel(m, NoSpeech, decoded, "ok")
    ELSE LET a == malloc(m, "result", InitialBufferSize)
         IN IF a.p = NULL
            THEN Out(a.m, NULL, RetLit(ErrAlloc), TRUE, decoded, "ok", segs, <<>>)
            ELSE SegLoop(a.m, a.p, InitialBufferSize, segs, 0, <<>>, decoded)

whisper_full(m, pcm, role) == [m EXCEPT !.ev = Append(@, Ev("whisper_full", pcm, role))]

\* variant: the engine-failure path forgets free(pcm)
EngineFailed_NoFree(m, pcm) == ReturnSentinel(m, ErrProcess, TRUE, "failed")

\* lines 349-353
EngineFailed(m, pcm) == ReturnSentinel(free(m, pcm), ErrProcess, TRUE, "failed")

\* lines 355-405
EngineSucceeded(m, pcm, segs) == CollectSegments(free(m, pcm), segs, TRUE)

\* whisper_wrapper_transcribe_with_lang; status and segs are the engine's answer
transcribe_with_lang(m, w, c, rb, audio_path, status, segs) ==
    IF InvalidFileArgs(w, c, audio_path)
    THEN Out(m, rb, RetLit(ErrInvalid), FALSE, FALSE, "none", <<>>, <<>>)
    ELSE LET d == read_wav_file(FileSystem[audio_path], FreePrevious(m, rb))
         IN IF ~d.ok THEN ReturnSentinel(d.m, ErrLoad, FALSE, "none")
            ELSE LET m2 == whisper_full(d.m, d.pcm, "pcm")
                 IN IF status # 0 THEN EngineFailed(m2, d.pcm)
                    ELSE EngineSucceeded(m2, d.pcm, segs)

\* whisper_wrapper_transcribe_pcm_with_lang
transcribe_pcm_with_lang(m, w, c, rb, pcm_data, n_samples, status, segs) ==
    IF InvalidPcmArgs(w, c, pcm_data, n_samples)
    THEN Out(m, rb, RetLit(ErrInvalid), FALSE, FALSE, "none", <<>>, <<>>)
    ELSE LET m2 == whisper_full(FreePrevious(m, rb), NULL, "caller")
         IN IF status # 0 THEN ReturnSentinel(m2, ErrProcess, FALSE, "failed")
            ELSE CollectSegments(m2, segs, FALSE)

\* variant: destroy forgets the result buffer
FreeHandle_KeepResult(m, rb) == m

\* lines 48-51 of whisper_wrapper_free
FreeHandle(m, rb) == IF rb # NULL THEN free(m, rb) ELSE m

\* the record of a call kept in last
Call(op, args, prev, o) ==
    [op |-> op, args |-> args, prev |-> prev, valid |-> o.valid, ret |-> o.ret,
     ev |-> o.m.ev, decoded |-> o.decoded, engine |-> o.engine, segs |-> o.segs,
     appends |-> o.appends, failed |-> o.m.failed, dfree |-> o.m.dfree,
     overrun |-> o.m.overrun]

Plain(m, ret) == Out(m, NULL, ret, TRUE, FALSE, "none", <<>>, <<>>)

RetNone == [kind |-> "none", p |-> NULL, text |-> <<>>]

\* no call has run yet
NoCall == Call("none", [w |-> NULL], NULL, Plain(Mem(EmptyHeap, 0, FALSE), RetNone))

NoDec == [done |-> FALSE]

RetBool(b) == [kind |-> "bool", p |-> NULL, text |-> Literal(IF b THEN "true" ELSE "false")]

Init ==
    /\ wrapper = NULL /\ ctx = FALSE /\ result_buffer = NULL
    /\ heap = EmptyHeap
    /\ last = NoCall
    /\ crashed = FALSE
    /\ file = NoFile /\ dec = NoDec

\* the caller's handle arguments: NULL, or the handle it holds
HandleArgs == {NULL, wrapper}

\* <<wrapper, audio_path>>: every path with the caller's handle, and each
\* argument NULL in turn
FileArgs == ({wrapper} \X ({NULL} \cup Paths)) \cup {<<NULL, 1>>, <<NULL, NULL>>}

\* <<wrapper, pcm_data, n_samples>>: good samples with the caller's handle,
\* and each argument invalid in turn
PcmArgs == {<<wrapper, 1, 1>>, <<NULL, 1, 1>>, <<wrapper, NULL, 1>>,
            <<wrapper, 1, 0>>, <<wrapper, 1, -1>>, <<NULL, NULL, 0>>}

\* whisper_wrapper_create: the struct's malloc or the model load may fail
Create ==
    /\ ~crashed /\ wrapper = NULL
    /\ \E mallocOk \in BOOLEAN, loadOk \in BOOLEAN :
          LET ok == mallocOk /\ loadOk
              m == Mem(heap, 0, FALSE)
          IN /\ wrapper' = IF ok THEN HANDLE ELSE NULL
             /\ ctx' = ok
             /\ result_buffer' = NULL
             /\ last' = Call("create", [w |-> NULL, ok |-> ok], NULL,
                             Plain(m, RetNone))
    /\ UNCHANGED <<heap, crashed, file, dec>>

\* whisper_wrapper_free
Free ==
    /\ ~crashed
    /\ \E w \in HandleArgs :
          LET m0 == Mem(heap, 0, FALSE)
              m == IF w = NULL THEN m0 ELSE FreeHandle(m0, result_buffer)
          IN /\ heap' = m.heap
             /\ wrapper' = IF w = NULL THEN wrapper ELSE NULL
             /\ ctx' = IF w = NULL THEN ctx ELSE FALSE
             /\ result_buffer' = IF w = NULL THEN result_buffer ELSE NULL
             /\ last' = Call("free", [w |-> w], result_buffer, Plain(m, RetNone))
    /\ UNCHANGED <<crashed, file, dec>>

\* whisper_wrapper_is_loaded
IsLoaded ==
    /\ ~crashed
    /\ \E w \in HandleArgs :
          last' = Call("is_loaded", [w |-> w], result_buffer,
                       Plain(Mem(heap, 0, FALSE), RetBool(w # NULL /\ ctx)))
    /\ UNCHANGED <<wrapper, ctx, result_buffer, heap, crashed, file, dec>>

\* the state after a transcription call returned o; a call that wrote past
\* its buffer has undefined behaviour: it returns all the same, or the
\* process dies in it
Finish(op, args, o) ==
    \E dies \in (IF o.m.overrun THEN BOOLEAN ELSE {FALSE}) :
       /\ heap' = o.m.heap
       /\ result_buffer' = o.rb
       /\ crashed' = dies
       /\ last' = Call(op, args, result_buffer,
                       IF dies THEN [o EXCEPT !.ret = RetNone] ELSE o)
       /\ UNCHANGED <<wrapper, ctx, file, dec>>

\* the engine's answer is drawn only when the call reaches whisper_full
TranscribeFile ==
    /\ ~crashed
    /\ \E a \in FileArgs :
          LET w == a[1]
              audio_path == a[2]
              args == [w |-> w, path |-> audio_path]
              run(env, status, segs) ==
                  transcribe_with_lang(Mem(heap, env[1], env[2]), w, ctx,
                                       result_buffer, audio_path, status, segs)
          IN IF ~run(NoEnv, 1, <<>>).valid
             THEN Finish("transcribeFile", args, run(NoEnv, 1, <<>>))
             ELSE \E env \in AllocEnvs :
                     IF run(env, 1, <<>>).engine = "none"
                     THEN Finish("transcribeFile", args, run(env, 1, <<>>))
                     ELSE \/ Finish("transcribeFile", args, run(env, 1, <<>>))
                          \/ \E segs \in SegListsAll :
                                Finish("transcribeFile", args, run(env, 0, segs))

TranscribePCM ==
    /\ ~crashed
    /\ \E a \in PcmArgs :
          LET w == a[1]
              pcm_data == a[2]
              n_samples == a[3]
              args == [w |-> w, pcm |-> pcm_data, n |-> n_samples]
              run(env, status, segs) ==
                  transcribe_pcm_with_lang(Mem(heap, env[1], env[2]), w, ctx,
                                           result_buffer, pcm_data, n_samples,
                                           status, segs)
          IN IF ~run(NoEnv, 1, <<>>).valid
             THEN Finish("transcribePCM", args, run(NoEnv, 1, <<>>))
             ELSE \E env \in AllocEnvs :
                     \/ Finish("transcribePCM", args, run(env, 1, <<>>))
                     \/ \E segs \in SegListsAll :
                           Finish("transcribePCM", args, run(env, 0, segs))

Next == Create \/ Free \/ IsLoaded \/ TranscribeFile \/ TranscribePCM

Spec == Init /\ [][Next]_vars

(***************************************************************************)
(* The decoder on its own: one file of WavFiles is decoded once.           *)
(***************************************************************************)
InitWav ==
    /\ file \in WavFiles
    /\ dec = NoDec
    /\ wrapper = NULL /\ ctx = FALSE /\ result_buffer = NULL
    /\ heap = EmptyHeap /\ last = NoCall /\ crashed = FALSE

Decode ==
    /\ ~dec.done
    /\ \E failAt \in 0..2 :
          dec' = [done |-> TRUE, r |-> read_wav_file(file, Mem(EmptyHeap, failAt, FALSE))]
    /\ UNCHANGED <<wrapper, ctx, result_buffer, heap, last, crashed, file>>

NextWav == Decode

SpecWav == InitWav /\ [][NextWav]_vars

(***************************************************************************)
(* Properties of the facade, checked under Spec.                           *)
(***************************************************************************)
Transcribes == {"transcribeFile", "transcribePCM"}

\* the arguments of call c pass validation, read off the arguments alone
ArgsValid(c, loaded) ==
    /\ c.op \in Transcribes
    /\ c.args.w # NULL /\ loaded
    /\ c.op = "transcribeFile" => c.args.path # NULL
    /\ c.op = "transcribePCM" => c.args.pcm # NULL /\ c.args.n > 0

ArgsInvalid(c, loaded) == c.op \in Transcribes /\ ~ArgsValid(c, loaded)

EventsAt(ev, kinds, role) ==
    {i \in DOMAIN ev : ev[i].e \in kinds /\ ev[i].role = role}

RECURSIVE Join(_)
Join(segs) == IF Len(segs) = 1 THEN segs[1]
              ELSE strcat(segs[1], strcat(Literal(" "), Join(Tail(segs))))

\* C1: in both transcription calls the buffer starts at 16384 bytes and is
\* doubled until the pending append fits: before every append
\* current_length + segment_length + 2 <= capacity, and no append writes past
\* the allocated capacity.
C1_EveryAppendFits ==
    /\ \A k \in DOMAIN last.appends :
          last.appends[k].cur + last.appends[k].seg + 2 <= last.appends[k].cap
    /\ ~last.overrun
    /\ ~crashed

\* C2: a transcription call with invalid arguments returns the literal
\* "Error: Invalid parameters" and changes nothing: handle, context, result
\* buffer and heap are as before, nothing is allocated or freed and the
\* engine is not invoked.
C2_InvalidArgsNoEffect ==
    [][ArgsInvalid(last', ctx) =>
          /\ last'.ret = RetLit(ErrInvalid)
          /\ last'.ev = <<>>
          /\ UNCHANGED <<wrapper, ctx, result_buffer, heap, crashed>>]_vars

C2_Witness ==
    /\ last.op = "transcribePCM" /\ last.args.w # NULL
    /\ last.args.pcm # NULL /\ last.args.n = 0
    /\ last.ret = RetLit(ErrInvalid)
    /\ result_buffer # NULL /\ heap[result_buffer].text = Run("a", 3)

\* the text a validated call produces, from what it met
Produced(c) ==
    IF c.op = "transcribeFile" /\ ~c.decoded THEN Literal(ErrLoad)
    ELSE IF c.engine = "failed" THEN Literal(ErrProcess)
    ELSE IF c.segs = <<>> THEN Literal(NoSpeech)
    ELSE IF c.failed THEN Literal(ErrAlloc)
    ELSE Join(c.segs)

\* C3: the handle owns at most one result buffer; a validated transcription
\* call frees the previous buffer exactly once, first of all, on every exit
\* path (nothing leaks, nothing is freed twice), and afterwards the handle's
\* buffer is absent or holds the text that call produced.
C3_SingleResultBuffer ==
    /\ LiveBlocks(heap) = IF result_buffer = NULL THEN {} ELSE {result_buffer}
    /\ ~last.dfree
    /\ (last.op \in Transcribes /\ last.valid) =>
          /\ last.prev # NULL =>
                last.ev # <<>> /\ last.ev[1] = Ev("free", last.prev, "result")
          /\ last.prev = NULL => (last.ev = <<>> \/ last.ev[1].e # "free")
          /\ ~crashed =>
                IF result_buffer = NULL
                THEN last.ret.kind \in {"null", "literal"}
                ELSE /\ last.ret.kind = "heap" /\ last.ret.p = result_buffer
                     /\ heap[result_buffer].text = Produced(last)

C3_Witness ==
    /\ last.op = "transcribeFile" /\ last.valid /\ last.prev # NULL
    /\ last.failed /\ last.segs # <<>>
    /\ result_buffer # NULL
    /\ heap[result_buffer].text = Literal(ErrAlloc)

\* C4: a returned text stays valid (live, same bytes, still the handle's
\* buffer) until a later validated transcription call or the destruction of
\* the handle; no other operation releases it, and destroy frees it once.
C4_ReturnedTextStaysValid ==
    [][(result_buffer # NULL /\ ~crashed) =>
          /\ heap[result_buffer].live
          /\ \/ /\ result_buffer' = result_buffer
                /\ heap'[result_buffer] = heap[result_buffer]
             \/ ArgsValid(last', ctx)
             \/ /\ last'.op = "free" /\ last'.args.w # NULL
                /\ ~last'.dfree
                /\ Cardinality(EventsAt(last'.ev, {"free"}, "result")) = 1
                /\ last'.ev[1].b = result_buffer
                /\ ~heap'[result_buffer].live]_vars

C4_Witness ==
    /\ last.op = "is_loaded" /\ last.args.w # NULL
    /\ result_buffer # NULL /\ heap[result_buffer].live
    /\ heap[result_buffer].text = Run("b", 16383)

\* C5: when the engine succeeds with n >= 1 segments and no allocation fails,
\* the returned text is the segments in order joined by single spaces.
C5_ReturnsJoinedSegments ==
    (last.op \in Transcribes /\ last.engine = "ok" /\ Len(last.segs) >= 1
        /\ ~last.failed) =>
       /\ ~crashed
       /\ last.ret.kind = "heap"
       /\ last.ret.text = Join(last.segs)

\* C6: when the decoder fails, transcribeFile returns exactly
\* "Error: Failed to load audio file", the prior result is replaced by that
\* sentinel, and the engine is not invoked.
C6_DecodeFailureSentinel ==
    (last.op = "transcribeFile" /\ last.valid /\ ~last.decoded) =>
       /\ last.ret.kind = "heap"
       /\ last.ret.text = Literal(ErrLoad)
       /\ result_buffer # NULL
       /\ heap[result_buffer].text = Literal(ErrLoad)
       /\ EventsAt(last.ev, {"whisper_full"}, "pcm") = {}

\* C7: the decoded PCM buffer is freed exactly once on every exit path, after
\* the conversion and after the engine's inference call, never used after
\* its free, and never left allocated.
C7_PcmFreedOnce ==
    LET mallocs == {i \in EventsAt(last.ev, {"malloc"}, "pcm") : last.ev[i].b # NULL}
        frees == EventsAt(last.ev, {"free"}, "pcm")
        uses == EventsAt(last.ev, {"convert", "whisper_full"}, "pcm")
    IN /\ Cardinality(mallocs) <= 1
       /\ Cardinality(frees) = Cardinality(mallocs)
       /\ \A f \in frees : \A u \in mallocs \cup uses : u < f
       /\ \A u \in uses : mallocs # {}
       /\ ~last.dfree
       /\ \A b \in LiveBlocks(heap) : heap[b].role \notin {"pcm", "raw"}

C7_Witness ==
    /\ last.op = "transcribeFile" /\ last.engine = "failed"
    /\ EventsAt(last.ev, {"whisper_full"}, "pcm") # {}
    /\ EventsAt(last.ev, {"free"}, "pcm") # {}

(***************************************************************************)
(* Properties of the decoder, checked under SpecWav.                       *)
(***************************************************************************)
GoodTags(f) == f.exists /\ f.hdr = HeaderSize /\ f.riff = "RIFF" /\ f.wave = "WAVE"

\* the header is one the decoder must refuse
HeaderRefused(f) ==
    \/ Int32(f.dsize) <= 0
    \/ Int16(f.ch) <= 0
    \/ Int16(f.bits) \notin {8, 16, 24, 32}
    \/ (Int32(f.dsize) \div (Int16(f.bits) \div 8)) \div Int16(f.ch) <= 0

Refuses(r) == ~r.ok /\ LiveBlocks(r.m.heap) = {}

Accepts(f, r) ==
    /\ r.ok /\ r.pcm # NULL /\ r.m.heap[r.pcm].live
    /\ r.samples = (Int32(f.dsize) \div (Int16(f.bits) \div 8)) \div Int16(f.ch)
    /\ r.sample_rate = Int32(f.rate)

\* C8 as stated: with good tags the decoder fails on data size <= 0,
\* channels <= 0, bits not in {8,16,24,32} or sample count <= 0; otherwise,
\* if data_size bytes can be read, it succeeds with that sample count and the
\* header's sample rate.
C8_AsStated ==
    (dec.done /\ GoodTags(file)) =>
       IF HeaderRefused(file) THEN Refuses(dec.r)
       ELSE Len(file.data) >= Int32(file.dsize) => Accepts(file, dec.r)

\* C8, amended: ... otherwise, if both buffers can be allocated and
\* data_size bytes can be read, it succeeds with that sample count and the
\* header's sample rate; if an allocation fails or the data is short it
\* fails and returns no buffer.
C8_HeaderValidation ==
    (dec.done /\ GoodTags(file)) =>
       IF HeaderRefused(file) THEN Refuses(dec.r)
       ELSE IF Len(file.data) >= Int32(file.dsize) /\ ~dec.r.m.failed
            THEN Accepts(file, dec.r)
            ELSE Refuses(dec.r)

C8_Witness ==
    /\ dec.done /\ GoodTags(file) /\ dec.r.ok
    /\ Int16(file.bits) = 24 /\ Int16(file.ch) = 2 /\ Int32(file.rate) = 44100
    /\ dec.r.samples = 1 /\ Int32(file.dsize) = 8

Signed24(b0, b1, b2) ==
    LET u == b0 + 256 * b1 + 65536 * b2
    IN IF u >= 8388608 THEN u - 16777216 ELSE u

\* C9: in the 24-bit branch the reassembled 32-bit integer of a byte triple
\* is 256 times its signed 24-bit little-endian value, so it lies in
\* [-2^31, 2^31 - 256].
C9_Pack24Scaled ==
    (dec.done /\ dec.r.ok /\ Int16(file.bits) = 24) =>
       \A k \in DOMAIN dec.r.acc.ints :
          LET v == dec.r.acc.ints[k]
              o == 3 * (k - 1)
          IN /\ v = 256 * Signed24(file.data[o + 1], file.data[o + 2],
                                   file.data[o + 3])
             /\ v >= (-2147483647) - 1
             /\ v <= 2147483647 - 255

C9_Witness ==
    /\ dec.done /\ dec.r.ok /\ Int16(file.bits) = 24
    /\ file.data = <<129, 1, 255>>
    /\ dec.r.acc.ints = <<Pack24(129, 1, 255)>>
    /\ dec.r.acc.ints[1] < 0

\* C10: for every accepted header, also when the data size is no multiple
\* of the frame size, every byte offset read is below data_size, every index
\* written is below the sample count, and each output slot is written once.
C10_DecodeInBounds ==
    (dec.done /\ dec.r.ok) =>
       LET acc == dec.r.acc
           slots == dec.r.pcmCap \div 4
       IN /\ dec.r.rawCap = Int32(file.dsize)
          /\ \A k \in DOMAIN acc.reads :
                acc.reads[k] >= 0 /\ acc.reads[k] < dec.r.rawCap
          /\ \A k \in DOMAIN acc.writes :
                acc.writes[k] >= 0 /\ acc.writes[k] < slots
          /\ slots = dec.r.samples
          /\ \A i \in 0..(dec.r.samples - 1) :
                Cardinality({k \in DOMAIN acc.writes : acc.writes[k] = i}) = 1

C10_Witness ==
    /\ dec.done /\ dec.r.ok
    /\ Int16(file.bits) = 16 /\ Int16(file.ch) = 2 /\ Int32(file.dsize) = 9
    /\ dec.r.samples = 2 /\ Len(dec.r.acc.reads) = 8

====
